---- MODULE Spec2Model ----
(***************************************************************************)
(* The JokeList component (JokeList.js) and its child Joke (Joke.js):      *)
(* the three state hooks, the getJokes request loop with its seen-id set,  *)
(* generateNewJokes, vote, and the remote joke endpoint seen through       *)
(* axios.get.                                                              *)
(***************************************************************************)
EXTENDS Integers, Sequences, FiniteSets, TLC

\* ------------------------------------------------------------------ bounds
MaxJokes == 2        \* numJokesToGet ranges over 1..MaxJokes
MaxVotes == 1        \* votes are kept within -MaxVotes..MaxVotes
MaxRequests == 4     \* responses processed by one acquisition

\* ------------------------------------------------------------ value domains
\* ids and joke texts the remote endpoint can put in a response body
Ids == {"a", "b", "c"}
Texts == {"t1"}
\* the value of a destructured field that the body does not have
Undefined == "undefined"
\* useState(null) / setError(null)
Null == "null"
\* setError("Failed to load jokes. Please try again.")
ErrorMessage == "Failed to load jokes. Please try again."

VARIABLES
    numJokesToGet,  \* the prop
    isLoading,      \* useState(true)
    jokes,          \* useState([]): sequence of [id, joke, votes]
    error,          \* useState(null)
    pc,             \* "mount": effect not yet run; "await": getJokes suspended
                    \* at axios.get; "idle": no getJokes running
    out,            \* getJokes' local array `jokes`
    seenJokes,      \* getJokes' local Set
    net,            \* the request of axios.get: idle, pending, or its outcome
    responses,      \* outcomes getJokes has processed in the latest
                    \* acquisition, kept until the stored list is next changed
    hist,           \* the latest consecutive vote calls (at most two), each
                    \* with the stored list it was applied to
    caller,         \* who called the latest getJokes: "none" before the
                    \* effect has run, "useEffect" or "generateNewJokes"
    discarded,      \* the ids of the stored list that the latest start of
                    \* getJokes found, kept until the stored list is next
                    \* changed by a vote
    tally           \* per id, the sum of the deltas of the vote calls made on
                    \* a joke of the list since the latest acquisition began

vars == <<numJokesToGet, isLoading, jokes, error, pc, out, seenJokes, net,
          responses, hist, caller, discarded, tally>>

\* ------------------------------------------------------------- the network
NetIdle == [status |-> "idle", id |-> Undefined, joke |-> Undefined]
NetPending == [status |-> "pending", id |-> Undefined, joke |-> Undefined]
\* a 2xx response whose body is an object; a field it lacks reads as undefined
OkResponses ==
    {[status |-> "ok", id |-> i, joke |-> t] :
        i \in Ids \cup {Undefined}, t \in Texts \cup {Undefined}}
\* a 2xx response whose body is null: destructuring res.data throws
NoBody == [status |-> "nobody", id |-> Undefined, joke |-> Undefined]
\* transport error or non-2xx status: axios.get rejects
Rejected == [status |-> "rejected", id |-> Undefined, joke |-> Undefined]
Outcomes == OkResponses \cup {NoBody, Rejected}

\* the ids of a list of jokes
IdsOf(list) == {list[i].id : i \in 1..Len(list)}

\* no vote call counted for any id
NoVotes == [i \in Ids \cup {Undefined} |-> 0]

\* the record of processed outcomes; it stops growing at MaxRequests entries
Logged(rs, r) == IF Len(rs) < MaxRequests THEN Append(rs, r) ELSE rs

\* ------------------------------------------------------- getJokes, pieces
\* a loop that stops one joke short
LoopStopsEarly(o, n) == Len(o) + 1 < n

\* while (jokes.length < numJokesToGet)
LoopContinues(o, n) == Len(o) < n

\* a membership test that never finds the id
NeverSeen(seen, id) == TRUE

\* !seenJokes.has(id)
IsNew(seen, id) == id \notin seen

\* jokes.push({ id, joke, votes: 0 })
Push(o, id, joke) == Append(o, [id |-> id, joke |-> joke, votes |-> 0])

\* a refresh that forgets to clear the stored list
NotCleared == jokes

\* setJokes([]) of generateNewJokes
Cleared == << >>

\* ------------------------------------------------------------ vote, pieces
\* a map that drops the id test
ApplyDeltaToAll(j, id, delta) == [j EXCEPT !.votes = j.votes + delta]

\* a map that ignores the sign of delta
ApplyDeltaUpOnly(j, id, delta) ==
    IF j.id = id THEN [j EXCEPT !.votes = j.votes + 1] ELSE j

\* j.id === id ? { ...j, votes: j.votes + delta } : j
ApplyDelta(j, id, delta) ==
    IF j.id = id THEN [j EXCEPT !.votes = j.votes + delta] ELSE j

\* (a, b) => b.votes - a.votes
Compare(a, b) == b.votes - a.votes

\* an unstable insertion: x goes before the elements it ties with
RECURSIVE InsertBeforeEqual(_, _)
InsertBeforeEqual(s, x) ==
    IF s = << >> THEN <<x>>
    ELSE IF Compare(Head(s), x) >= 0 THEN <<x>> \o s
    ELSE <<Head(s)>> \o InsertBeforeEqual(Tail(s), x)

\* Array.prototype.sort is stable: x goes after every element it does not
\* have to precede
RECURSIVE Insert(_, _)
Insert(s, x) ==
    IF s = << >> THEN <<x>>
    ELSE IF Compare(Head(s), x) > 0 THEN <<x>> \o s
    ELSE <<Head(s)>> \o Insert(Tail(s), x)

RECURSIVE SortFrom(_, _)
SortFrom(sorted, rest) ==
    IF rest = << >> THEN sorted
    ELSE SortFrom(Insert(sorted, Head(rest)), Tail(rest))

\* a vote that forgets to sort
NoSort(list) == list

\* .sort((a, b) => b.votes - a.votes)
SortJokes(list) == SortFrom(<< >>, list)

\* [...jokes].map(...).sort(...)
VoteResult(list, id, delta) ==
    SortJokes([i \in 1..Len(list) |-> ApplyDelta(list[i], id, delta)])

\* ------------------------------------------------------------------- Init
Init ==
    /\ numJokesToGet \in 1..MaxJokes
    /\ isLoading = TRUE
    /\ jokes = << >>
    /\ error = Null
    /\ pc = "mount"
    /\ out = << >>
    /\ seenJokes = {}
    /\ net = NetIdle
    /\ responses = << >>
    /\ hist = << >>
    /\ caller = "none"
    /\ discarded = {}
    /\ tally = NoVotes

\* ---------------------------------------------------------------- actions
\* a getJokes that seeds its seen-id set with the ids of the stored list
StartGetJokesRemembering(loading, stored) ==
    /\ responses' = << >>
    /\ hist' = << >>
    /\ discarded' = IdsOf(jokes)
    /\ tally' = NoVotes
    /\ out' = << >>
    /\ seenJokes' = IdsOf(jokes)
    /\ net' = NetPending
    /\ pc' = "await"
    /\ isLoading' = loading
    /\ jokes' = stored
    /\ error' = error

\* getJokes from its first line to the first axios.get, or to its end when
\* the loop body is never entered
StartGetJokes(loading, stored) ==
    /\ responses' = << >>
    /\ hist' = << >>
    /\ discarded' = IdsOf(jokes)
    /\ tally' = NoVotes
    /\ IF LoopContinues(<< >>, numJokesToGet)
       THEN /\ out' = << >>
            /\ seenJokes' = {}
            /\ net' = NetPending
            /\ pc' = "await"
            /\ isLoading' = loading
            /\ jokes' = stored
            /\ error' = error
       ELSE /\ out' = << >>
            /\ seenJokes' = {}
            /\ net' = NetIdle
            /\ pc' = "idle"
            /\ jokes' = << >>
            /\ isLoading' = FALSE
            /\ error' = Null

\* useEffect(() => { getJokes(); }, [])
Mount ==
    /\ pc = "mount"
    /\ StartGetJokes(isLoading, jokes)
    /\ caller' = "useEffect"
    /\ UNCHANGED numJokesToGet

\* a refresh that forgets setIsLoading(true)
GenerateNewJokesNoFlag ==
    /\ ~isLoading
    /\ StartGetJokes(isLoading, Cleared)
    /\ caller' = "generateNewJokes"
    /\ UNCHANGED numJokesToGet

\* a click on "Get New Jokes" or "Try Again"; both exist only while
\* isLoading is false
GenerateNewJokes ==
    /\ ~isLoading
    /\ StartGetJokes(TRUE, Cleared)
    /\ caller' = "generateNewJokes"
    /\ UNCHANGED numJokesToGet

\* the remote endpoint settles the outstanding request
Respond ==
    /\ net = NetPending
    /\ Len(responses) < MaxRequests
    /\ \E r \in Outcomes : net' = r
    /\ UNCHANGED <<numJokesToGet, isLoading, jokes, error, pc, out, seenJokes,
                   responses, hist, caller, discarded, tally>>

\* a loop body that calls setIsLoading(false) after every response
ResumeOkClearsFlagEarly ==
    /\ pc = "await"
    /\ net.status = "ok"
    /\ responses' = Logged(responses, net)
    /\ isLoading' = FALSE
    /\ LET fresh == IsNew(seenJokes, net.id)
           o == IF fresh THEN Push(out, net.id, net.joke) ELSE out
           s == IF fresh THEN seenJokes \cup {net.id} ELSE seenJokes
       IN IF LoopContinues(o, numJokesToGet)
          THEN /\ out' = o
               /\ seenJokes' = s
               /\ net' = NetPending
               /\ UNCHANGED <<pc, jokes, error>>
          ELSE /\ jokes' = o
               /\ error' = Null
               /\ out' = << >>
               /\ seenJokes' = {}
               /\ net' = NetIdle
               /\ pc' = "idle"
    /\ UNCHANGED <<numJokesToGet, hist, caller, discarded, tally>>

\* getJokes resumes after the await with a response and runs to the next
\* axios.get or to the end of the try block
ResumeOk ==
    /\ pc = "await"
    /\ net.status = "ok"
    /\ responses' = Logged(responses, net)
    /\ LET fresh == IsNew(seenJokes, net.id)
           o == IF fresh THEN Push(out, net.id, net.joke) ELSE out
           s == IF fresh THEN seenJokes \cup {net.id} ELSE seenJokes
       IN IF LoopContinues(o, numJokesToGet)
          THEN /\ out' = o
               /\ seenJokes' = s
               /\ net' = NetPending
               /\ UNCHANGED <<pc, jokes, isLoading, error>>
          ELSE /\ jokes' = o
               /\ isLoading' = FALSE
               /\ error' = Null
               /\ out' = << >>
               /\ seenJokes' = {}
               /\ net' = NetIdle
               /\ pc' = "idle"
    /\ UNCHANGED <<numJokesToGet, hist, caller, discarded, tally>>

\* a catch block that stores the jokes collected so far
ResumeCatchKeepsPartial ==
    /\ pc = "await"
    /\ net.status \in {"rejected", "nobody"}
    /\ responses' = Logged(responses, net)
    /\ error' = ErrorMessage
    /\ isLoading' = FALSE
    /\ jokes' = out
    /\ out' = << >>
    /\ seenJokes' = {}
    /\ net' = NetIdle
    /\ pc' = "idle"
    /\ UNCHANGED <<numJokesToGet, hist, caller, discarded, tally>>

\* a catch block that forgets setError
ResumeCatchNoError ==
    /\ pc = "await"
    /\ net.status \in {"rejected", "nobody"}
    /\ responses' = Logged(responses, net)
    /\ error' = error
    /\ isLoading' = FALSE
    /\ out' = << >>
    /\ seenJokes' = {}
    /\ net' = NetIdle
    /\ pc' = "idle"
    /\ UNCHANGED <<numJokesToGet, jokes, hist, caller, discarded, tally>>

\* a catch block that forgets setIsLoading(false)
ResumeCatchKeepsLoading ==
    /\ pc = "await"
    /\ net.status \in {"rejected", "nobody"}
    /\ responses' = Logged(responses, net)
    /\ error' = ErrorMessage
    /\ isLoading' = isLoading
    /\ out' = << >>
    /\ seenJokes' = {}
    /\ net' = NetIdle
    /\ pc' = "idle"
    /\ UNCHANGED <<numJokesToGet, jokes, hist, caller, discarded, tally>>

\* getJokes resumes with a rejection, or throws on a null body: the catch
\* block
ResumeCatch ==
    /\ pc = "await"
    /\ net.status \in {"rejected", "nobody"}
    /\ responses' = Logged(responses, net)
    /\ error' = ErrorMessage
    /\ isLoading' = FALSE
    /\ out' = << >>
    /\ seenJokes' = {}
    /\ net' = NetIdle
    /\ pc' = "idle"
    /\ UNCHANGED <<numJokesToGet, jokes, hist, caller, discarded, tally>>

\* vote(id, delta); the thumbs are rendered only while isLoading is false
\* and error is null
Vote ==
    /\ ~isLoading
    /\ error = Null
    /\ \E id \in Ids \cup {Undefined}, delta \in {1, -1} :
        /\ \A i \in 1..Len(jokes) :
              jokes[i].id = id =>
                  jokes[i].votes + delta \in (0 - MaxVotes)..MaxVotes
        /\ jokes' = VoteResult(jokes, id, delta)
        /\ hist' = (IF hist = << >> THEN << >> ELSE <<hist[Len(hist)]>>)
                     \o <<[id |-> id, delta |-> delta, pre |-> jokes]>>
        /\ tally' = [tally EXCEPT
                        ![id] = IF id \in IdsOf(jokes) THEN @ + delta ELSE @]
    /\ responses' = << >>
    /\ discarded' = {}
    /\ UNCHANGED <<numJokesToGet, isLoading, error, pc, out, seenJokes, net,
                   caller>>

Next ==
    \/ Mount
    \/ GenerateNewJokes
    \/ Respond
    \/ ResumeOk
    \/ ResumeCatch
    \/ Vote

Spec == Init /\ [][Next]_vars

\* --------------------------------------------- a remote short of distinct ids
\* the endpoint never fails and the ids it ever offers are fewer than
\* numJokesToGet: every response leaves the ids seen so far below that count
RespondStarved ==
    /\ net = NetPending
    /\ \E r \in OkResponses :
          /\ Cardinality(seenJokes \cup {r.id}) < numJokesToGet
          /\ net' = r
    /\ UNCHANGED <<numJokesToGet, isLoading, jokes, error, pc, out, seenJokes,
                   responses, hist, caller, discarded, tally>>

NextStarved ==
    \/ Mount
    \/ RespondStarved
    \/ ResumeOk

\* a remote that answers has at least one id to offer, so fewer ids than
\* numJokesToGet means numJokesToGet is at least 2
InitStarved == Init /\ numJokesToGet > 1

\* the effect runs, every request is answered, every continuation resumes
SpecStarved ==
    /\ InitStarved
    /\ [][NextStarved]_vars
    /\ WF_vars(Mount)
    /\ WF_vars(RespondStarved)
    /\ WF_vars(ResumeOk)

\* ------------------------------------------------ a remote without the cap
\* the endpoint settles the outstanding request, however many came before
RespondAny ==
    /\ net = NetPending
    /\ \E r \in Outcomes : net' = r
    /\ UNCHANGED <<numJokesToGet, isLoading, jokes, error, pc, out, seenJokes,
                   responses, hist, caller, discarded, tally>>

\* the endpoint answers with an id not yet seen, or the request fails
RespondProgress ==
    /\ net = NetPending
    /\ \E r \in Outcomes :
          /\ r.status # "ok" \/ r.id \notin seenJokes
          /\ net' = r
    /\ UNCHANGED <<numJokesToGet, isLoading, jokes, error, pc, out, seenJokes,
                   responses, hist, caller, discarded, tally>>

NextLive ==
    \/ Mount
    \/ GenerateNewJokes
    \/ RespondAny
    \/ ResumeOk
    \/ ResumeCatch
    \/ Vote

\* the effect runs, every issued request eventually resolves, every
\* continuation resumes, and the endpoint eventually delivers a new id or
\* fails; the user is free never to click
SpecLive ==
    /\ Init
    /\ [][NextLive]_vars
    /\ WF_vars(Mount)
    /\ WF_vars(RespondAny)
    /\ WF_vars(ResumeOk)
    /\ WF_vars(ResumeCatch)
    /\ SF_vars(RespondProgress)

\* ------------------------------------------------- vocabulary of the claims
DistinctIds(list) ==
    \A i, k \in 1..Len(list) : i # k => list[i].id # list[k].id

SortedDescending(list) ==
    \A i \in 1..(Len(list) - 1) : list[i].votes >= list[i + 1].votes

LastOf(s) == s[Len(s)]

\* the first n distinct ids of a sequence of responses, in order of first
\* arrival, each as a joke with no votes
RECURSIVE FirstDistinct(_, _, _)
FirstDistinct(rs, n, acc) ==
    IF rs = << >> \/ Len(acc) = n THEN acc
    ELSE IF \E i \in 1..Len(acc) : acc[i].id = Head(rs).id
         THEN FirstDistinct(Tail(rs), n, acc)
         ELSE FirstDistinct(Tail(rs), n,
                  Append(acc, [id |-> Head(rs).id, joke |-> Head(rs).joke,
                               votes |-> 0]))

\* an acquisition has just ended in success and no vote has been cast since
JustAcquired ==
    /\ pc = "idle"
    /\ ~isLoading
    /\ error = Null
    /\ responses # << >>

\* an acquisition has just ended in a failed request
JustFailed ==
    /\ pc = "idle"
    /\ responses # << >>
    /\ LastOf(responses).status # "ok"

\* this step ends an acquisition in success
SuccessStep == isLoading /\ ~isLoading' /\ error' = Null

\* ---------------------------------------------------------------- claims
\* C1: whenever an acquisition ends in success, the list it stores holds
\* exactly numJokesToGet jokes and their ids are pairwise distinct.
C1_SuccessStoresNDistinct ==
    [][SuccessStep =>
          /\ Len(jokes') = numJokesToGet
          /\ DistinctIds(jokes')]_vars

\* a two-joke acquisition that met a duplicate on the way has succeeded
C1_Witness ==
    /\ JustAcquired
    /\ numJokesToGet = 2
    /\ Len(jokes) = 2
    /\ Len(responses) = 3

\* C2: the list stored by a successful acquisition is the first
\* numJokesToGet distinct ids of the responses it received, in order of first
\* arrival, each with votes 0; a response with an id already seen adds
\* nothing.
C2_FirstDistinctInOrder ==
    JustAcquired =>
        /\ jokes = FirstDistinct(responses, numJokesToGet, << >>)
        /\ \A k \in 1..Len(responses) : responses[k].id \in IdsOf(jokes)
        /\ LastOf(responses).id = LastOf(jokes).id

\* the responses a, a, b gave the list a, b
C2_Witness ==
    /\ JustAcquired
    /\ Len(responses) = 3
    /\ <<responses[1].id, responses[2].id, responses[3].id>> = <<"a", "a", "b">>
    /\ Len(jokes) = 2
    /\ <<jokes[1].id, jokes[2].id>> = <<"a", "b">>

\* C3: a failed request ends the acquisition in the error outcome, whatever
\* had been collected: the error message is set, isLoading is false, the
\* stored list is empty, and it stays empty for as long as the error shows.
C3_FailureExposesNothing ==
    /\ [][net.status \in {"rejected", "nobody"} =>
            /\ error' = ErrorMessage
            /\ ~isLoading'
            /\ jokes' = << >>
            /\ pc' = "idle"]_vars
    /\ [](JustFailed => error = ErrorMessage /\ ~isLoading /\ jokes = << >>)

\* a request failed after a joke had been collected, in a cycle that replaced
\* an earlier list
C3_Witness ==
    /\ JustFailed
    /\ caller = "generateNewJokes"
    /\ Len(responses) >= 2
    /\ responses[1].status = "ok"
    /\ LastOf(responses).status = "rejected"

\* C4: a response whose body lacks the id or the joke text is treated as a
\* failed request, so no joke with an undefined id or text is ever appended
\* to the output or stored.
C4_MalformedNeverKept ==
    /\ \A i \in 1..Len(out) :
          out[i].id # Undefined /\ out[i].joke # Undefined
    /\ \A i \in 1..Len(jokes) :
          jokes[i].id # Undefined /\ jokes[i].joke # Undefined

\* C5: in every reachable state the stored list is sorted descending by
\* votes.
C5_SortedDescending == SortedDescending(jokes)

\* a vote has moved the second joke in front of the first
C5_Witness ==
    /\ hist # << >>
    /\ Len(jokes) = 2
    /\ LastOf(hist).pre[2].id = jokes[1].id
    /\ jokes[1].votes > jokes[2].votes

\* the joke of a list that has the given id
JokeWithId(list, id) == list[CHOOSE i \in 1..Len(list) : list[i].id = id]

\* the position of the given id in a list
PositionOf(list, id) == CHOOSE i \in 1..Len(list) : list[i].id = id

\* this step is a call of vote: only vote extends hist
VoteStep == hist' # << >> /\ LastOf(hist').pre = jokes

\* C6: vote(id, delta) on an id of the list adds delta to the votes of the
\* joke with that id and changes nothing else but the order: the length, the
\* set of ids, every text and every other joke's votes stay, and so do
\* isLoading and error.
C6_VoteChangesOneCount ==
    [][(VoteStep /\ LastOf(hist').id \in IdsOf(jokes)) =>
          LET id == LastOf(hist').id
              delta == LastOf(hist').delta
          IN /\ Len(jokes') = Len(jokes)
             /\ IdsOf(jokes') = IdsOf(jokes)
             /\ \A i \in 1..Len(jokes) :
                   \E k \in 1..Len(jokes') :
                       /\ jokes'[k].id = jokes[i].id
                       /\ jokes'[k].joke = jokes[i].joke
                       /\ jokes'[k].votes =
                              IF jokes[i].id = id
                              THEN jokes[i].votes + delta
                              ELSE jokes[i].votes
             /\ isLoading' = isLoading
             /\ error' = error]_vars

\* a vote on one of two jokes has changed its count and left the other's
C6_Witness ==
    /\ hist # << >>
    /\ Len(jokes) = 2
    /\ LastOf(hist).id \in IdsOf(jokes)
    /\ JokeWithId(jokes, LastOf(hist).id).votes # 0
    /\ \E i \in 1..2 :
          /\ jokes[i].id # LastOf(hist).id
          /\ jokes[i].votes = JokeWithId(LastOf(hist).pre, jokes[i].id).votes

\* C7: vote with an id that matches no joke is a silent no-op: the list keeps
\* the same jokes with the same votes in the same order, and no error is set.
C7_AbsentIdIsNoOp ==
    (hist # << >> /\ LastOf(hist).id \notin IdsOf(LastOf(hist).pre)) =>
        /\ jokes = LastOf(hist).pre
        /\ error = Null
        /\ ~isLoading

\* a vote on an absent id was applied to a list of two jokes that tie
C7_Witness ==
    /\ hist # << >>
    /\ LastOf(hist).id \notin IdsOf(LastOf(hist).pre)
    /\ Len(jokes) = 2
    /\ jokes[1].votes = jokes[2].votes

\* the latest two calls were vote(id, +1) then vote(id, -1) on an id of the
\* list
InversePair ==
    /\ Len(hist) = 2
    /\ hist[1].id = hist[2].id
    /\ hist[1].delta = 1
    /\ hist[2].delta = -1
    /\ hist[1].id \in IdsOf(hist[1].pre)

\* C8: vote(id, +1) immediately followed by vote(id, -1) restores the joke's
\* votes and its order relative to every joke whose votes differ from the
\* joke's original votes.
C8_InversePairRestores ==
    InversePair =>
        LET pre == hist[1].pre
            id == hist[1].id
            v == JokeWithId(pre, id).votes
        IN /\ JokeWithId(jokes, id).votes = v
           /\ \A i \in 1..Len(pre) :
                 pre[i].votes # v =>
                     /\ JokeWithId(jokes, pre[i].id).votes = pre[i].votes
                     /\ (PositionOf(pre, id) < i) <=>
                        (PositionOf(jokes, id) < PositionOf(jokes, pre[i].id))

\* an inverse pair was applied to the second of two jokes, the first having
\* one vote more: the +1 made them tie
C8_Witness ==
    /\ InversePair
    /\ Len(jokes) = 2
    /\ hist[1].pre[2].id = hist[1].id
    /\ hist[1].pre[1].votes = hist[1].pre[2].votes + 1

\* C9: in every reachable state the ids of the stored list are pairwise
\* distinct.
C9_StoredIdsDistinct == DistinctIds(jokes)

\* a list of two jokes, acquired past a duplicate response, has been voted on
C9_Witness ==
    /\ Len(jokes) = 2
    /\ hist # << >>
    /\ jokes[1].id # jokes[2].id
    /\ jokes[1].votes # jokes[2].votes

\* C10: generateNewJokes clears the stored list before the first request and
\* the list stays empty while isLoading is true; the cycle's success stores
\* only jokes of its own responses, each with votes 0.
C10_ClearedWhileLoading ==
    /\ [](isLoading => jokes = << >>)
    /\ [][SuccessStep =>
            \A i \in 1..Len(jokes') :
                /\ jokes'[i].votes = 0
                /\ \E k \in 1..Len(responses') :
                      /\ responses'[k].id = jokes'[i].id
                      /\ responses'[k].joke = jokes'[i].joke]_vars

\* a cycle started by generateNewJokes has replaced the list with two jokes
C10_Witness ==
    /\ caller = "generateNewJokes"
    /\ JustAcquired
    /\ Len(jokes) = 2

\* C11: when the remote never fails and offers fewer distinct ids than
\* numJokesToGet, the acquisition never ends: isLoading stays true, neither
\* outcome is reached, and requests keep being issued and answered.
C11_StarvedNeverEnds ==
    /\ [](isLoading /\ error = Null /\ jokes = << >> /\ pc # "idle")
    /\ []<>(net = NetPending)
    /\ []<>(net.status = "ok")

\* MaxRequests responses were processed, the output is still short, and one
\* more request is out
C11_Witness ==
    /\ Len(responses) = MaxRequests
    /\ Len(out) < numJokesToGet
    /\ Len(out) = 1
    /\ net = NetPending
    /\ isLoading

\* C12: when every issued request resolves and the remote eventually
\* delivers new ids or fails, every acquisition ends with isLoading false:
\* in success with numJokesToGet jokes stored, or in the error outcome.
C12_AcquisitionEnds ==
    isLoading ~>
        /\ ~isLoading
        /\ pc = "idle"
        /\ \/ error = Null /\ Len(jokes) = numJokesToGet
           \/ error = ErrorMessage

\* an acquisition ended in success although its record had filled up,
\* duplicates included, before the last joke arrived
C12_Witness ==
    /\ ~isLoading
    /\ error = Null
    /\ caller = "generateNewJokes"
    /\ Len(jokes) = 2
    /\ Len(responses) = MaxRequests
    /\ responses[MaxRequests].id \in {responses[k].id : k \in 1..(MaxRequests - 1)}

\* the requests issued by the latest acquisition: one per processed outcome,
\* and the one still out
RequestsIssued == Len(responses) + (IF net = NetIdle THEN 0 ELSE 1)

\* the responses of a record that repeat the id of an earlier response
Duplicates(rs) ==
    Cardinality({k \in 1..Len(rs) :
        /\ rs[k].status = "ok"
        /\ \E m \in 1..(k - 1) : rs[m].status = "ok" /\ rs[m].id = rs[k].id})

\* C13 as stated: every call, successful or failed, has performed
\* numJokesToGet or more requests when it returns its outcome, and a
\* successful call exactly numJokesToGet plus the duplicates it received.
C13_EveryCallAtLeastN ==
    /\ (JustAcquired \/ JustFailed) => RequestsIssued >= numJokesToGet
    /\ JustAcquired =>
           RequestsIssued = numJokesToGet + Duplicates(responses)

\* C13 as amended: a successful call has performed numJokesToGet or more
\* requests, exactly numJokesToGet plus the duplicates it received; a failed
\* call has performed at least one and at most numJokesToGet plus the
\* duplicates it received, and may have performed fewer than numJokesToGet.
C13_SuccessfulCallAtLeastN ==
    /\ JustAcquired =>
          /\ RequestsIssued >= numJokesToGet
          /\ RequestsIssued = numJokesToGet + Duplicates(responses)
    /\ JustFailed =>
          /\ RequestsIssued >= 1
          /\ RequestsIssued <= numJokesToGet + Duplicates(responses)

\* a two-joke acquisition succeeded with four requests, two answered by
\* duplicates
C13_Witness ==
    /\ JustAcquired
    /\ numJokesToGet = 2
    /\ RequestsIssued = 4
    /\ Duplicates(responses) = 2

\* C14: the request loop is sequential: a request is issued only as the
\* first of an acquisition, none being out, or in the step that has processed
\* the previous response (appended to the output or discarded as a
\* duplicate); a suspended getJokes waits for exactly that one request.
C14_OneRequestAtATime ==
    /\ [][net' = NetPending =>
            \/ /\ net = NetIdle
               /\ pc # "await"
               /\ pc' = "await"
               /\ out' = << >>
            \/ /\ net.status = "ok"
               /\ responses' = Append(responses, net)
               /\ \/ /\ net.id \notin IdsOf(out)
                     /\ out' = Append(out, [id |-> net.id, joke |-> net.joke,
                                            votes |-> 0])
                  \/ /\ net.id \in IdsOf(out)
                     /\ out' = out]_vars
    /\ [](pc = "await" <=> net # NetIdle)

\* the second request of an acquisition is out, the first response having
\* been appended to the output
C14_Witness ==
    /\ net = NetPending
    /\ Len(responses) = 1
    /\ Len(out) = 1
    /\ out[1].id = responses[1].id

\* this step starts an acquisition
StartStep == pc # "await" /\ pc' = "await"

\* C15: every acquisition starts with an empty output and an empty seen-id
\* set, and whether a response is kept depends only on the responses of the
\* same acquisition: an id of the list that was stored before is kept like
\* any other, with votes 0.
C15_StartsFromScratch ==
    /\ [][StartStep => out' = << >> /\ seenJokes' = {}]_vars
    /\ [][(pc = "await" /\ net.status = "ok"
             /\ \A k \in 1..Len(responses) : responses[k].id # net.id) =>
            LET kept == IF pc' = "idle" THEN jokes' ELSE out'
            IN kept # << >>
               /\ LastOf(kept) = [id |-> net.id, joke |-> net.joke,
                                  votes |-> 0]]_vars

\* a refresh has stored again, with votes 0, a joke of the list it replaced
C15_Witness ==
    /\ JustAcquired
    /\ caller = "generateNewJokes"
    /\ \E i \in 1..Len(jokes) :
          jokes[i].id \in discarded /\ jokes[i].votes = 0

\* C16: the sort of vote is stable: two jokes with equal votes after the
\* vote are in the order they had before it.
C16_StableSort ==
    hist # << >> =>
        LET pre == LastOf(hist).pre
        IN \A i, k \in 1..Len(jokes) :
              (i < k /\ jokes[i].votes = jokes[k].votes) =>
                  PositionOf(pre, jokes[i].id) < PositionOf(pre, jokes[k].id)

\* a vote on the lower of two jokes has made them tie
C16_Witness ==
    /\ hist # << >>
    /\ Len(jokes) = 2
    /\ LastOf(hist).id = LastOf(hist).pre[2].id
    /\ LastOf(hist).pre[1].votes # LastOf(hist).pre[2].votes
    /\ jokes[1].votes = jokes[2].votes

\* the jokes and the thumbs are shown
ListShown == ~isLoading /\ error = Null

\* C17: every joke has votes 0 right after a successful acquisition, and
\* from then on its votes are the sum of the deltas of the vote calls made
\* on its id.
C17_VotesAreSumOfDeltas ==
    /\ JustAcquired => \A i \in 1..Len(jokes) : jokes[i].votes = 0
    /\ ListShown => \A i \in 1..Len(jokes) : jokes[i].votes = tally[jokes[i].id]

\* one joke has been voted up to the bound and another down to it
C17_Witness ==
    /\ ListShown
    /\ Len(jokes) = 2
    /\ jokes[1].votes = MaxVotes
    /\ jokes[2].votes = 0 - MaxVotes
    /\ tally[jokes[1].id] = MaxVotes
    /\ tally[jokes[2].id] = 0 - MaxVotes

\* C18: whenever isLoading is false and error is null the stored list holds
\* exactly numJokesToGet jokes, and a vote is cast only in such a state.
C18_ShownListIsFull ==
    /\ [](ListShown => Len(jokes) = numJokesToGet /\ pc = "idle")
    /\ [][VoteStep => ListShown /\ Len(jokes) = numJokesToGet]_vars

\* the full list of a refresh is shown and has been voted on twice
C18_Witness ==
    /\ ListShown
    /\ caller = "generateNewJokes"
    /\ numJokesToGet = 2
    /\ Len(jokes) = 2
    /\ Len(hist) = 2

\* C19: at most one acquisition is in flight: isLoading is true from the
\* mount or the click until the running getJokes ends, and a click, which
\* needs isLoading false, never finds a getJokes suspended or a request
\* out.
C19_OneAcquisitionInFlight ==
    /\ [](pc # "idle" => isLoading)
    /\ [][(~isLoading /\ isLoading') =>
            /\ pc = "idle"
            /\ net = NetIdle
            /\ out = << >>
            /\ seenJokes = {}
            /\ caller' = "generateNewJokes"]_vars
    /\ [][(isLoading /\ ~isLoading') => pc = "await" /\ pc' = "idle"]_vars

\* a second acquisition, started by a click on a shown list, is in flight
C19_Witness ==
    /\ isLoading
    /\ pc = "await"
    /\ caller = "generateNewJokes"
    /\ discarded # {}
    /\ Len(out) = 1
    /\ net = NetPending

====
